---------------------------- MODULE Spec2Model ----------------------------
(***************************************************************************)
(* A model of compressVideo (src/script.js, lines 2-268): the in-browser   *)
(* video re-encoder that plays a file in a <video> element, copies each     *)
(* frame to a canvas and records the canvas stream with a MediaRecorder.    *)
(*                                                                          *)
(* Spec follows one run of compressVideo from the call to the end.  The     *)
(* size computation (SizeSpec), the setup of the recorder on every runtime  *)
(* (MimeSpec), the recorder's deliveries (ChunkSpec) and two interleaved    *)
(* runs (PairSpec) have specifications of their own, built from the same    *)
(* actions.  The route that receives the chunks of an upload                *)
(* (src/upload-chunk.js) runs in another process, with variables and a      *)
(* specification of its own (UploadSpec).  Every callback the function      *)
(* registers (timer, element event, recorder event, promise reaction, file  *)
(* reader event, animation frame) is one action; the event loop runs them   *)
(* one at a time, so each action is atomic.  Time is the value of           *)
(* Date.now() in milliseconds; a timer fires when the clock reaches its     *)
(* deadline and the clock never passes the deadline of an armed timer.      *)
(*                                                                          *)
(* The source's duration is fixed once the file is given (it is read anew   *)
(* on every tick, but the file does not change), nothing seeks the element  *)
(* (video.seeking is always false: the element is never attached to the     *)
(* page and the function never sets currentTime), and the playback position *)
(* only moves forward.                                                      *)
(***************************************************************************)
EXTENDS Integers, Sequences, FiniteSets, TLC

VARIABLES
    now,              \* Date.now(), ms
    promise,          \* the promise returned by compressVideo: [state, reason]
    ignored,          \* a resolve/reject call was made after settlement
    url,              \* the object URL bound to the file: none / live / revoked
    video,            \* the <video> element
    handlers,         \* video.onloadedmetadata / onerror / onended are set
    timers,           \* deadline of each setTimeout (Off: not armed)
    canvas,           \* canvas.width, canvas.height
    audioContext,     \* null / running / closed
    rec,              \* mediaRecorder: [state, stopPending, startedAt, audio, stoppedBy],
                      \* and the mimeType chosen for it
    chunks,           \* the chunks array: the numbers of the chunks kept
    emitted,          \* the sizes of the chunks delivered by dataavailable events, in order
    play,             \* the promise of video.play()
    raf,              \* animationFrameId and the pending animation frames
    lastProgressTime, \* ms
    progressLog,      \* the values passed to onProgress, in call order
    draws,            \* number of ctx.drawImage calls that were made
    reader,           \* the FileReader of finalization: none / reading / loaded / failed
    finalized,        \* the chunk count finalization found (-1: not reached)
    src,              \* the inputs: source size and duration, maxWidth, maxHeight, onProgress,
                      \* and the types the runtime's MediaRecorder supports
    tick,             \* the calls of drawFrame: how many were made, how the last one ended
    peer,             \* the closure variables of the other run interleaved with this one
    chunksMap,        \* upload-chunk.js: the entry of each filename in chunksMap (0: none)
    entries,          \* upload-chunk.js: the objects created for chunksMap, by number
    requests,         \* upload-chunk.js: the calls of POST, in order of arrival
    blobs             \* upload-chunk.js: the files stored by put, in order

\* the variables of the page that calls compressVideo (src/script.js)
client == << now, promise, ignored, url, video, handlers, timers, canvas,
             audioContext, rec, chunks, emitted, play, raf, lastProgressTime,
             progressLog, draws, reader, finalized, src, tick, peer >>

\* the variables of the upload route's process (src/upload-chunk.js)
server == << chunksMap, entries, requests, blobs >>

vars == << client, server >>

\* the variables that one call of compressVideo owns (lines 4-18 and its arguments)
Own == [promise |-> promise, ignored |-> ignored, url |-> url, video |-> video,
        handlers |-> handlers, timers |-> timers, canvas |-> canvas,
        audioContext |-> audioContext, rec |-> rec, chunks |-> chunks,
        emitted |-> emitted, play |-> play, raf |-> raf,
        lastProgressTime |-> lastProgressTime, progressLog |-> progressLog,
        draws |-> draws, reader |-> reader, finalized |-> finalized, src |-> src,
        tick |-> tick]

----------------------------------------------------------------------------
(* Bounds of the model *)

\* animation frames requested in one run
MaxFrames == 2
\* dataavailable events in one run
MaxChunks == 1
\* dataavailable events in one run of the recorder's own specification
MaxDeliveries == 3
\* largest source dimension of the size computation's own specification
MaxDim == 9
\* largest maxWidth / maxHeight of the size computation's own specification
MaxBound == 7
\* Date.now() when compressVideo is called (any value above ProgressInterval)
Epoch == 1000

(* Program constants, ms *)
LoadTimeoutMs == 45000
MaxDurationMs == 300000
DrawEndGraceMs == 300
EndedGraceMs == 100
ProgressInterval == 800
ProgressCap == 99

Off == -1

Min(a, b) == IF a < b THEN a ELSE b

----------------------------------------------------------------------------
(* The size computation of video.onloadedmetadata, lines 37-64.             *)
(* width and height are doubles in the code.  a / (w / h) and a * (w / h)   *)
(* are modelled by the exact quotient a*h/w (resp. a*w/h); when the exact   *)
(* quotient is an integer the double may fall just below it, so that        *)
(* Math.floor gives one less: low chooses that outcome.                     *)

\* (a size that is not rounded down to an even number)
FloorOnly(n) == n

\* Math.floor(x / 2) * 2 of a whole number
FloorEven(n) == (n \div 2) * 2

ScaledFloor(a, num, den, low) ==
    LET q == (a * num) \div den
    IN  IF low /\ (a * num) % den = 0 /\ q > 0 THEN q - 1 ELSE q

\* (a size computation that scales every source)
AlwaysExceeds(w, h, mw, mh) == TRUE

\* width > maxWidth || height > maxHeight, line 45
Exceeds(w, h, mw, mh) == w > mw \/ h > mh

\* <<canvas.width, canvas.height>> for a w x h source under the bound mw x mh
OutputSize(w, h, mw, mh, low) ==
    IF Exceeds(w, h, mw, mh)
    THEN IF w > h
         THEN << FloorEven(Min(w, mw)), FloorEven(ScaledFloor(Min(w, mw), h, w, low)) >>
         ELSE << FloorEven(ScaledFloor(Min(h, mh), w, h, low)), FloorEven(Min(h, mh)) >>
    ELSE << FloorEven(w), FloorEven(h) >>


----------------------------------------------------------------------------
(* The choice of the container, lines 89-96.  supported is the set of types *)
(* for which MediaRecorder.isTypeSupported answers true.                    *)

Vp9 == "video/webm;codecs=vp9"
Vp8 == "video/webm;codecs=vp8"
Webm == "video/webm"

SelectMimeType(supported) ==
    IF Vp9 \in supported THEN Vp9
    ELSE IF Vp8 \in supported THEN Vp8
    ELSE Webm

\* a runtime that supports every type the function asks for
FullSupport == {Vp9, Vp8, Webm}

\* the runtimes: a runtime that records a codec in WebM supports the
\* container; a runtime may support no WebM at all (it records MP4 only)
Runtimes == { {}, {Webm}, {Vp8, Webm}, {Vp9, Webm}, FullSupport }

\* new MediaRecorder(stream, {mimeType}) throws NotSupportedError for a type
\* the runtime does not support
Constructs(supported, mimeType) == mimeType \in supported

----------------------------------------------------------------------------
(* The promise returned by compressVideo (line 3): resolve and reject act  *)
(* only on a pending promise; a later call is ignored.                      *)

Pending == [state |-> "pending", reason |-> "none"]

\* (a promise that a later call would settle again)
SettleAgain(p, state, reason) == [state |-> state, reason |-> reason]

Settle(p, state, reason) ==
    IF p.state = "pending" THEN [state |-> state, reason |-> reason] ELSE p

Reject(reason) ==
    /\ promise' = Settle(promise, "rejected", reason)
    /\ ignored' = (ignored \/ promise.state # "pending")

Resolve ==
    /\ promise' = Settle(promise, "resolved", "ok")
    /\ ignored' = (ignored \/ promise.state # "pending")

----------------------------------------------------------------------------
(* Inputs *)

\* source durations, in units of the playback position; 0 stands for a
\* source whose duration is reported as 0 (the code then divides by 1)
Durations == {0, 2}
\* onProgress: null, a callback that returns, a callback that may throw
Callbacks == {"none", "ok", "faulty"}
\* the sizes a pipeline run is given: <<videoWidth, videoHeight, maxWidth, maxHeight>>
RunSizes == { <<8, 6, 4, 4>> }

TimerNames == {"load", "max", "drawEnd", "ended"}

\* let mediaRecorder = null, line 12 (no mimeType is chosen yet)
NoRecorder == [state |-> "null", stopPending |-> FALSE, startedAt |-> 0, audio |-> FALSE,
               stoppedBy |-> "none", mimeType |-> "none"]

\* drawFrame was not called yet
NoTick == [n |-> 0, outcome |-> "none"]

\* compressVideo was called once: there is no other run
NoPeer == [run |-> 0]

\* the names under which files are uploaded
Filenames == {"a.webm"}

\* the upload route's module was loaded (src/upload-chunk.js, line 5: an
\* empty map) and no request has arrived
ServerInit ==
    /\ chunksMap = [f \in Filenames |-> 0]
    /\ entries = << >>
    /\ requests = << >>
    /\ blobs = << >>

Init ==
    /\ now = Epoch
    /\ promise = Pending
    /\ ignored = FALSE
    /\ url = "none"
    /\ video = [src |-> "none", phase |-> "new", paused |-> TRUE, ended |-> FALSE,
                seeking |-> FALSE, endedQueued |-> FALSE, currentTime |-> 0]
    /\ handlers = [onloadedmetadata |-> FALSE, onerror |-> FALSE, onended |-> FALSE]
    /\ timers = [t \in TimerNames |-> Off]
    /\ canvas = << 0, 0 >>
    /\ audioContext = "null"
    /\ rec = NoRecorder
    /\ chunks = << >>
    /\ emitted = << >>
    /\ play = "none"
    /\ raf = [id |-> 0, pending |-> {}]
    /\ lastProgressTime = 0
    /\ progressLog = << >>
    /\ draws = 0
    /\ reader = "none"
    /\ finalized = -1
    /\ tick = NoTick
    /\ peer = NoPeer
    /\ ServerInit
    /\ \E s \in RunSizes, d \in Durations, c \in Callbacks :
           src = [w |-> s[1], h |-> s[2], maxWidth |-> s[3], maxHeight |-> s[4],
                  duration |-> d, cb |-> c, supported |-> FullSupport]

----------------------------------------------------------------------------
(* Helpers *)

\* (a guarded stop that never stops the recorder)
StopNever(r, by) == r

\* (a stop() that is called whatever the recorder's state)
StopUnguarded(r, by) ==
    [r EXCEPT !.state = "inactive", !.stopPending = TRUE, !.stoppedBy = by]

\* mediaRecorder.stop() behind its guard: if (mediaRecorder && mediaRecorder.state === 'recording')
\* stop() makes the recorder inactive at once and queues its stop event
\* (by names the place of the call)
StopIfRecording(r, by) ==
    IF r.state = "recording"
    THEN [r EXCEPT !.state = "inactive", !.stopPending = TRUE, !.stoppedBy = by]
    ELSE r

\* clearTimeout
Clear(ts, t) == [ts EXCEPT ![t] = Off]

Armed == {t \in TimerNames : timers[t] # Off}

Due(t) == timers[t] # Off /\ timers[t] = now

\* video.duration || 1
Dur == IF src.duration = 0 THEN 1 ELSE src.duration

\* (a progress value that is not capped)
ProgressUncapped(currentTime) == (currentTime * 100) \div Dur

\* Math.min((currentTime / duration) * 100, 99)
Progress(currentTime) == Min((currentTime * 100) \div Dur, ProgressCap)

\* (a throttle that lets every tick report)
Unthrottled(t, last) == TRUE

\* now - lastProgressTime > 800, line 191
Throttle(t, last) == t - last > ProgressInterval

\* requestAnimationFrame(drawFrame): a new id, pending until it fires or is cancelled
Request(r) == [id |-> r.id + 1, pending |-> r.pending \cup {r.id + 1}]

\* (a finalization that leaves the requested frame pending)
KeepFrame(r) == r

\* if (animationFrameId) cancelAnimationFrame(animationFrameId)
Cancel(r) == [r EXCEPT !.pending = @ \ {r.id}]

\* video.videoWidth && video.videoHeight: known once the metadata is loaded,
\* reset when the element is emptied
HasSize == video.phase \in {"ready", "broken"}

Playing == /\ video.src = "blob" /\ video.phase = "ready" /\ play = "resolved"
           /\ ~video.paused /\ ~video.ended

----------------------------------------------------------------------------
(* The executor, lines 4-26 and 248-266: arms the load timer, sets the     *)
(* handlers, binds the file to the element.  createObjectURL may throw.     *)

Invoke(urlThrows) ==
    /\ video.phase = "new"
    /\ handlers' = [handlers EXCEPT !.onloadedmetadata = TRUE, !.onerror = TRUE]
    /\ IF urlThrows
       THEN /\ timers' = timers
            /\ video' = [video EXCEPT !.phase = "nosrc"]
            /\ url' = url
            /\ Reject("UrlError")
       ELSE /\ timers' = [timers EXCEPT !.load = now + LoadTimeoutMs]
            /\ video' = [video EXCEPT !.phase = "loading", !.src = "blob"]
            /\ url' = "live"
            /\ UNCHANGED << promise, ignored >>
    /\ UNCHANGED << now, canvas, audioContext, rec, chunks, emitted, play, raf,
                    lastProgressTime, progressLog, draws, reader, finalized, src, tick, peer, server >>

(* The load timer's callback, lines 21-26 *)
LoadTimerFire ==
    /\ Due("load")
    /\ timers' = Clear(timers, "load")
    /\ IF HasSize
       THEN UNCHANGED << promise, ignored >>
       ELSE Reject("LoadTimeout")
    /\ UNCHANGED << now, url, video, handlers, canvas, audioContext, rec, chunks,
                    emitted, play, raf, lastProgressTime, progressLog, draws,
                    reader, finalized, src, tick, peer, server >>

(* video.onerror, lines 248-254.  The element reports an error while the   *)
(* file is bound to it, during probing or during playback.                  *)
VideoError ==
    /\ video.src = "blob"
    /\ video.phase \in {"loading", "ready"}
    /\ handlers.onerror
    /\ video' = [video EXCEPT !.phase = IF @ = "loading" THEN "failed" ELSE "broken"]
    /\ timers' = Clear(timers, "load")
    /\ Reject("LoadError")
    /\ UNCHANGED << now, url, handlers, canvas, audioContext, rec, chunks, emitted,
                    play, raf, lastProgressTime, progressLog, draws, reader,
                    finalized, src, tick, peer, server >>

(* video.onloadedmetadata, lines 28-246.  audio: how building the audio     *)
(* route ends (lines 71-81); fault: the statement of the setup that throws, *)
(* if any (canvas.captureStream, new MediaRecorder, mediaRecorder.start);   *)
(* low: the rounding of the scaled dimension.                               *)
AudioOutcomes == {"ok", "noContext", "noRoute"}
\* the outcome in the runs that are followed from the call to the end; the
\* three outcomes are followed through the setup (MimeSpec) and through
\* the recording and finalization (ChunkSpec)
RunAudio == {"ok"}
SetupFaults == {"none", "captureStream", "recorder", "start"}

\* (an audio setup whose error is not caught: it reaches the catch of
\* lines 243-245, which rejects with it)
AudioRouteUncaught(audio) ==
    [context |-> audio # "noContext", track |-> (audio = "ok"),
     error |-> IF audio = "ok" THEN "none" ELSE "AudioError"]

\* the audio setup, lines 70-81: whether the audio context was created,
\* whether an audio track was obtained, and the error that leaves the block
\* (none: the catch of lines 78-81 logs a warning and goes on)
AudioRoute(audio) ==
    [context |-> audio # "noContext", track |-> (audio = "ok"), error |-> "none"]

LoadedMetadata(audio, fault, low) ==
    /\ video.src = "blob"
    /\ video.phase = "loading"
    /\ handlers.onloadedmetadata
    /\ video' = [video EXCEPT !.phase = "ready"]
    /\ canvas' = OutputSize(src.w, src.h, src.maxWidth, src.maxHeight, low)
    /\ audioContext' = IF fault # "captureStream" /\ AudioRoute(audio).context
                       THEN "running" ELSE audioContext
    /\ IF fault = "captureStream"
       THEN /\ rec' = rec
            /\ timers' = Clear(timers, "load")
            /\ Reject("SetupError")
            /\ UNCHANGED << play, handlers >>
       ELSE IF AudioRoute(audio).error # "none"
       THEN /\ rec' = rec
            /\ timers' = Clear(timers, "load")
            /\ Reject(AudioRoute(audio).error)
            /\ UNCHANGED << play, handlers >>
       ELSE LET mimeType == SelectMimeType(src.supported)
            IN  IF ~Constructs(src.supported, mimeType)
                THEN /\ rec' = [rec EXCEPT !.mimeType = mimeType]
                     /\ timers' = Clear(timers, "load")
                     /\ Reject("NotSupported")
                     /\ UNCHANGED << play, handlers >>
                ELSE IF fault = "none"
                THEN /\ rec' = [state |-> "recording", stopPending |-> FALSE,
                                startedAt |-> now, audio |-> AudioRoute(audio).track,
                                stoppedBy |-> "none", mimeType |-> mimeType]
                     /\ play' = "pending"
                     /\ handlers' = [handlers EXCEPT !.onended = TRUE]
                     /\ timers' = [Clear(timers, "load") EXCEPT !.max = now + MaxDurationMs]
                     /\ UNCHANGED << promise, ignored >>
                ELSE /\ rec' = IF fault = "start"
                               THEN [rec EXCEPT !.state = "inactive", !.audio = AudioRoute(audio).track,
                                                !.mimeType = mimeType]
                               ELSE [rec EXCEPT !.mimeType = mimeType]
                     /\ timers' = Clear(timers, "load")
                     /\ Reject("SetupError")
                     /\ UNCHANGED << play, handlers >>
    /\ UNCHANGED << now, url, chunks, emitted, raf, lastProgressTime, progressLog,
                    draws, reader, finalized, src, tick, peer, server >>

(* drawFrame, lines 171-206, run at time t on the element v.  drawThrows: drawImage   *)
(* throws; cbThrows: onProgress throws.  ts and r are the timers and the    *)
(* pending frames as the caller leaves them.                                *)
DrawFrameAt(t, v, ts, r, drawThrows, cbThrows) ==
    LET terminate == v.ended \/ (v.paused /\ v.currentTime > 0 /\ ~v.seeking)
        copies    == ~v.paused /\ ~v.ended
        reports   == src.cb # "none" /\ Throttle(t, lastProgressTime)
        cbFails   == reports /\ src.cb = "faulty" /\ cbThrows
    IN  IF terminate
        THEN /\ timers' = IF rec.state = "recording"
                          THEN [ts EXCEPT !.drawEnd = t + DrawEndGraceMs]
                          ELSE ts
             /\ raf' = r
             /\ tick' = [n |-> tick.n + 1, outcome |-> "terminated"]
             /\ UNCHANGED << rec, draws, progressLog, lastProgressTime >>
        ELSE IF copies /\ drawThrows
        THEN /\ rec' = StopIfRecording(rec, "draw")
             /\ timers' = ts
             /\ raf' = r
             /\ tick' = [n |-> tick.n + 1, outcome |-> "drawThrew"]
             /\ UNCHANGED << draws, progressLog, lastProgressTime >>
        ELSE /\ tick' = [n |-> tick.n + 1,
                         outcome |-> IF cbFails THEN "callbackThrew" ELSE "scheduled"]
             /\ draws' = IF copies THEN draws + 1 ELSE draws
             /\ progressLog' = IF reports
                               THEN Append(progressLog, Progress(v.currentTime))
                               ELSE progressLog
             /\ lastProgressTime' = IF reports /\ ~cbFails THEN t ELSE lastProgressTime
             /\ rec' = IF cbFails THEN StopIfRecording(rec, "draw") ELSE rec
             /\ raf' = IF cbFails THEN r ELSE Request(r)
             /\ timers' = ts

(* video.play().then, lines 209-212: playback has started; the first call  *)
(* of drawFrame.                                                            *)
PlayResolve(drawThrows, cbThrows) ==
    /\ play = "pending"
    /\ video.src = "blob"
    /\ video.phase = "ready"
    /\ play' = "resolved"
    /\ video' = [video EXCEPT !.paused = FALSE]
    /\ DrawFrameAt(now, [video EXCEPT !.paused = FALSE], timers, raf, drawThrows, cbThrows)
    /\ UNCHANGED << now, promise, ignored, url, handlers, canvas, audioContext,
                    chunks, emitted, reader, finalized, src, peer, server >>

(* video.play().catch, lines 212-220: play() was refused by the runtime,   *)
(* or was aborted because the element was paused or emptied while the play  *)
(* promise was pending.                                                     *)
PlayReject ==
    /\ \/ play = "pending" /\ video.src = "blob"
       \/ play = "aborted"
    /\ play' = "rejected"
    /\ Reject("PlayError")
    /\ UNCHANGED << now, url, video, handlers, timers, canvas, audioContext, rec,
                    chunks, emitted, raf, lastProgressTime, progressLog, draws,
                    reader, finalized, src, tick, peer, server >>

(* An animation frame fires, dt ms after the call of drawFrame that        *)
(* requested it: drawFrame, lines 171-206.                                  *)
FrameSteps == {100, 900}

AnimationFrame(dt, drawThrows, cbThrows) ==
    /\ raf.id < MaxFrames
    /\ \A t \in Armed : now + dt <= timers[t]
    /\ now' = now + dt
    /\ \E i \in raf.pending :
           DrawFrameAt(now + dt, video, timers, [raf EXCEPT !.pending = @ \ {i}],
                       drawThrows, cbThrows)
    /\ UNCHANGED << promise, ignored, url, video, handlers, canvas,
                    audioContext, chunks, emitted, play, reader, finalized, src, peer, server >>

----------------------------------------------------------------------------
(* The element while it plays *)

\* the playback position moves forward
Advance ==
    /\ Playing
    /\ video.currentTime < src.duration
    /\ video' = [video EXCEPT !.currentTime = @ + 1]
    /\ UNCHANGED << now, promise, ignored, url, handlers, timers, canvas,
                    audioContext, rec, chunks, emitted, play, raf, lastProgressTime,
                    progressLog, draws, reader, finalized, src, tick, peer, server >>

\* the position reaches the end: ended and paused become true and the
\* ended event is queued
ReachEnd ==
    /\ Playing
    /\ video.currentTime = src.duration
    /\ video' = [video EXCEPT !.ended = TRUE, !.paused = TRUE, !.endedQueued = TRUE]
    /\ UNCHANGED << now, promise, ignored, url, handlers, timers, canvas,
                    audioContext, rec, chunks, emitted, play, raf, lastProgressTime,
                    progressLog, draws, reader, finalized, src, tick, peer, server >>

\* the runtime pauses the element (nothing in the function resumes it)
RuntimePause ==
    /\ Playing
    /\ video' = [video EXCEPT !.paused = TRUE]
    /\ UNCHANGED << now, promise, ignored, url, handlers, timers, canvas,
                    audioContext, rec, chunks, emitted, play, raf, lastProgressTime,
                    progressLog, draws, reader, finalized, src, tick, peer, server >>

(* video.onended, lines 223-232 *)
Ended ==
    /\ video.endedQueued
    /\ video.src = "blob"
    /\ handlers.onended
    /\ video' = [video EXCEPT !.endedQueued = FALSE]
    /\ timers' = IF rec.state = "recording"
                 THEN [timers EXCEPT !.ended = now + EndedGraceMs]
                 ELSE timers
    /\ UNCHANGED << now, promise, ignored, url, handlers, canvas, audioContext,
                    rec, chunks, emitted, play, raf, lastProgressTime, progressLog,
                    draws, reader, finalized, src, tick, peer, server >>

(* The callbacks of the three timers that stop the recorder: lines 174-178 *)
(* (300 ms after drawFrame saw the end), 226-230 (100 ms after the ended    *)
(* event), 236-241 (the ceiling).  (StopTimerIdle: a timer whose callback    *)
(* does not stop the recorder.)                                             *)
StopTimerIdle(t) ==
    /\ Due(t)
    /\ timers' = Clear(timers, t)
    /\ UNCHANGED << now, promise, ignored, url, video, handlers, canvas,
                    audioContext, rec, chunks, emitted, play, raf, lastProgressTime,
                    progressLog, draws, reader, finalized, src, tick, peer, server >>

StopTimerFire(t) ==
    /\ Due(t)
    /\ timers' = Clear(timers, t)
    /\ rec' = StopIfRecording(rec, t)
    /\ UNCHANGED << now, promise, ignored, url, video, handlers, canvas,
                    audioContext, chunks, emitted, play, raf, lastProgressTime,
                    progressLog, draws, reader, finalized, src, tick, peer, server >>

DrawEndTimerFire == StopTimerFire("drawEnd")

EndedTimerFire == StopTimerFire("ended")

\* (a ceiling timer that fires without stopping the recorder)
MaxTimerIdle ==
    /\ Due("max")
    /\ timers' = Clear(timers, "max")
    /\ UNCHANGED << now, promise, ignored, url, video, handlers, canvas, audioContext,
                    rec, chunks, emitted, play, raf, lastProgressTime, progressLog,
                    draws, reader, finalized, src, tick, peer, server >>

MaxTimerFire == StopTimerFire("max")

----------------------------------------------------------------------------
(* The recorder's events *)

\* (a handler that puts the new chunk first)
KeepFirst(c, size, n) == IF size > 0 THEN << n >> \o c ELSE c

\* if (e.data && e.data.size > 0) chunks.push(e.data), lines 110-112;
\* n is the number of the chunk in the order of delivery
Keep(c, size, n) == IF size > 0 THEN Append(c, n) ELSE c

(* mediaRecorder.ondataavailable, lines 109-113.  The recorder delivers a  *)
(* chunk of the given size while it records, and once more after it was     *)
(* stopped, before its stop event.                                          *)
Deliver(size, bound) ==
    /\ rec.state = "recording" \/ rec.stopPending
    /\ Len(emitted) < bound
    /\ emitted' = Append(emitted, size)
    /\ chunks' = Keep(chunks, size, Len(emitted) + 1)
    /\ UNCHANGED << now, promise, ignored, url, video, handlers, timers, canvas,
                    audioContext, rec, play, raf, lastProgressTime, progressLog,
                    draws, reader, finalized, src, tick, peer, server >>

DataAvailable(size) == Deliver(size, MaxChunks)

(* mediaRecorder.onerror, lines 163-165.  On a fault the recorder becomes  *)
(* inactive, fires error, and then its last dataavailable and stop events.  *)
RecorderError ==
    /\ rec.state = "recording"
    /\ rec' = [rec EXCEPT !.state = "inactive", !.stopPending = TRUE, !.stoppedBy = "error"]
    /\ Reject("RecorderError")
    /\ UNCHANGED << now, url, video, handlers, timers, canvas, audioContext,
                    chunks, emitted, play, raf, lastProgressTime, progressLog,
                    draws, reader, finalized, src, tick, peer, server >>

\* (finalization without the check for an empty recording)
NoDataUnchecked(c) == FALSE

\* chunks.length === 0, line 142
NoData(c) == Len(c) = 0

\* video.pause(); video.src = '', lines 135-137: the element is paused and
\* emptied; its playback position returns to 0 and its queued events are dropped
Emptied(v) == [v EXCEPT !.paused = TRUE, !.ended = FALSE, !.src = "empty",
                        !.phase = "emptied", !.endedQueued = FALSE, !.currentTime = 0]

(* mediaRecorder.onstop, lines 115-161: finalization.  cbThrows: the call  *)
(* onProgress(100) throws, which ends the handler at line 118.              *)
RecorderStop(cbThrows) ==
    /\ rec.stopPending
    /\ rec' = [rec EXCEPT !.stopPending = FALSE]
    /\ progressLog' = IF src.cb # "none" THEN Append(progressLog, 100) ELSE progressLog
    /\ IF src.cb = "faulty" /\ cbThrows
       THEN UNCHANGED << promise, ignored, url, video, handlers, audioContext, play,
                         raf, reader, finalized >>
       ELSE /\ handlers' = [onloadedmetadata |-> FALSE, onerror |-> FALSE, onended |-> FALSE]
            /\ audioContext' = IF audioContext = "running" THEN "closed" ELSE audioContext
            /\ raf' = Cancel(raf)
            /\ video' = Emptied(video)
            /\ play' = IF play = "pending" THEN "aborted" ELSE play
            /\ url' = IF url = "live" THEN "revoked" ELSE url
            /\ finalized' = Len(chunks)
            /\ IF NoData(chunks)
               THEN /\ Reject("EmptyOutput")
                    /\ reader' = reader
               ELSE /\ reader' = "reading"
                    /\ UNCHANGED << promise, ignored >>
    /\ UNCHANGED << now, timers, canvas, chunks, emitted, lastProgressTime, draws, src, tick, peer, server >>

(* reader.onload, lines 153-155 *)
ReaderLoad ==
    /\ reader = "reading"
    /\ reader' = "loaded"
    /\ Resolve
    /\ UNCHANGED << now, url, video, handlers, timers, canvas, audioContext, rec,
                    chunks, emitted, play, raf, lastProgressTime, progressLog,
                    draws, finalized, src, tick, peer, server >>

(* reader.onerror, lines 156-159 *)
ReaderError ==
    /\ reader = "reading"
    /\ reader' = "failed"
    /\ Reject("ReaderError")
    /\ UNCHANGED << now, url, video, handlers, timers, canvas, audioContext, rec,
                    chunks, emitted, play, raf, lastProgressTime, progressLog,
                    draws, finalized, src, tick, peer, server >>

----------------------------------------------------------------------------
(* The clock *)

\* time passes up to the earliest deadline of the armed timers
TickToDeadline ==
    /\ Armed # {}
    /\ \E t \in Armed :
          /\ \A u \in Armed : timers[t] <= timers[u]
          /\ timers[t] > now
          /\ now' = timers[t]
    /\ UNCHANGED << promise, ignored, url, video, handlers, timers, canvas,
                    audioContext, rec, chunks, emitted, play, raf, lastProgressTime,
                    progressLog, draws, reader, finalized, src, tick, peer, server >>

----------------------------------------------------------------------------
Next ==
    \/ \E urlThrows \in BOOLEAN : Invoke(urlThrows)
    \/ LoadTimerFire
    \/ VideoError
    \/ \E audio \in RunAudio, fault \in SetupFaults, low \in BOOLEAN :
           LoadedMetadata(audio, fault, low)
    \/ \E drawThrows \in BOOLEAN, cbThrows \in BOOLEAN : PlayResolve(drawThrows, cbThrows)
    \/ PlayReject
    \/ \E dt \in FrameSteps, drawThrows \in BOOLEAN, cbThrows \in BOOLEAN :
           AnimationFrame(dt, drawThrows, cbThrows)
    \/ Advance
    \/ ReachEnd
    \/ RuntimePause
    \/ Ended
    \/ DrawEndTimerFire
    \/ EndedTimerFire
    \/ MaxTimerFire
    \/ \E size \in {0, 1} : DataAvailable(size)
    \/ RecorderError
    \/ \E cbThrows \in BOOLEAN : RecorderStop(cbThrows)
    \/ ReaderLoad
    \/ ReaderError
    \/ TickToDeadline

Spec == Init /\ [][Next]_vars

(* The scheduling of the event loop: an armed timer fires, a queued event  *)
(* or promise reaction is delivered, a started file read ends.  Nothing     *)
(* obliges the source to load, to play or to end, nor the recorder to fail. *)
FairSpec ==
    /\ Spec
    /\ WF_vars(\E urlThrows \in BOOLEAN : Invoke(urlThrows))
    /\ WF_vars(TickToDeadline)
    /\ WF_vars(LoadTimerFire)
    /\ WF_vars(DrawEndTimerFire)
    /\ WF_vars(EndedTimerFire)
    /\ WF_vars(MaxTimerFire)
    /\ WF_vars(Ended)
    /\ WF_vars(\E cbThrows \in BOOLEAN : RecorderStop(cbThrows))
    /\ WF_vars(ReaderLoad \/ ReaderError)
    /\ WF_vars(play = "aborted" /\ PlayReject)

----------------------------------------------------------------------------
(* The size computation on its own: every source size and bound up to      *)
(* MaxDim and MaxBound.                                                     *)

SizeInit ==
    /\ now = Epoch
    /\ promise = Pending
    /\ ignored = FALSE
    /\ url = "live"
    /\ video = [src |-> "blob", phase |-> "loading", paused |-> TRUE, ended |-> FALSE,
                seeking |-> FALSE, endedQueued |-> FALSE, currentTime |-> 0]
    /\ handlers = [onloadedmetadata |-> TRUE, onerror |-> TRUE, onended |-> FALSE]
    /\ timers = [t \in TimerNames |-> IF t = "load" THEN Epoch + LoadTimeoutMs ELSE Off]
    /\ canvas = << 0, 0 >>
    /\ audioContext = "null"
    /\ rec = NoRecorder
    /\ chunks = << >>
    /\ emitted = << >>
    /\ play = "none"
    /\ raf = [id |-> 0, pending |-> {}]
    /\ lastProgressTime = 0
    /\ progressLog = << >>
    /\ draws = 0
    /\ reader = "none"
    /\ finalized = -1
    /\ tick = NoTick
    /\ peer = NoPeer
    /\ ServerInit
    /\ \E w \in 1..MaxDim, h \in 1..MaxDim, mw \in 1..MaxBound, mh \in 1..MaxBound :
           src = [w |-> w, h |-> h, maxWidth |-> mw, maxHeight |-> mh,
                  duration |-> 2, cb |-> "none", supported |-> FullSupport]

\* lines 37-64 of video.onloadedmetadata
ComputeSize(low) ==
    /\ video.phase = "loading"
    /\ video' = [video EXCEPT !.phase = "ready"]
    /\ canvas' = OutputSize(src.w, src.h, src.maxWidth, src.maxHeight, low)
    /\ UNCHANGED << now, promise, ignored, url, handlers, timers, audioContext, rec,
                    chunks, emitted, play, raf, lastProgressTime, progressLog, draws,
                    reader, finalized, src, tick, peer, server >>

SizeNext == \E low \in BOOLEAN : ComputeSize(low)

SizeSpec == SizeInit /\ [][SizeNext]_vars

----------------------------------------------------------------------------
(* The setup of the recorder on every runtime: a run up to the end of      *)
(* video.onloadedmetadata, with the types the runtime supports drawn from   *)
(* Runtimes.                                                                *)

MimeInit ==
    /\ now = Epoch
    /\ promise = Pending
    /\ ignored = FALSE
    /\ url = "none"
    /\ video = [src |-> "none", phase |-> "new", paused |-> TRUE, ended |-> FALSE,
                seeking |-> FALSE, endedQueued |-> FALSE, currentTime |-> 0]
    /\ handlers = [onloadedmetadata |-> FALSE, onerror |-> FALSE, onended |-> FALSE]
    /\ timers = [t \in TimerNames |-> Off]
    /\ canvas = << 0, 0 >>
    /\ audioContext = "null"
    /\ rec = NoRecorder
    /\ chunks = << >>
    /\ emitted = << >>
    /\ play = "none"
    /\ raf = [id |-> 0, pending |-> {}]
    /\ lastProgressTime = 0
    /\ progressLog = << >>
    /\ draws = 0
    /\ reader = "none"
    /\ finalized = -1
    /\ tick = NoTick
    /\ peer = NoPeer
    /\ ServerInit
    /\ \E s \in RunSizes, d \in Durations, c \in Callbacks, r \in Runtimes :
           src = [w |-> s[1], h |-> s[2], maxWidth |-> s[3], maxHeight |-> s[4],
                  duration |-> d, cb |-> c, supported |-> r]

MimeNext ==
    \/ \E urlThrows \in BOOLEAN : Invoke(urlThrows)
    \/ \E audio \in AudioOutcomes, fault \in SetupFaults, low \in BOOLEAN :
           LoadedMetadata(audio, fault, low)
    \/ VideoError
    \/ LoadTimerFire
    \/ TickToDeadline

MimeSpec == MimeInit /\ [][MimeNext]_vars

----------------------------------------------------------------------------
(* The recorder on its own, from mediaRecorder.start(200) to the settlement *)
(* of finalization, with up to MaxDeliveries dataavailable events.  The run *)
(* starts in a state video.onloadedmetadata leaves when the recorder was    *)
(* started, with or without an audio route; the recorder is stopped by the  *)
(* ceiling's timer or by a fault.                                           *)

ChunkInit ==
    /\ now = Epoch
    /\ promise = Pending
    /\ ignored = FALSE
    /\ url = "live"
    /\ video = [src |-> "blob", phase |-> "ready", paused |-> TRUE, ended |-> FALSE,
                seeking |-> FALSE, endedQueued |-> FALSE, currentTime |-> 0]
    /\ handlers = [onloadedmetadata |-> TRUE, onerror |-> TRUE, onended |-> TRUE]
    /\ timers = [t \in TimerNames |-> IF t = "max" THEN Epoch + MaxDurationMs ELSE Off]
    /\ \E audio \in AudioOutcomes :
           /\ audioContext = IF audio = "noContext" THEN "null" ELSE "running"
           /\ rec = [state |-> "recording", stopPending |-> FALSE, startedAt |-> Epoch,
                     audio |-> (audio = "ok"), stoppedBy |-> "none", mimeType |-> Vp9]
    /\ chunks = << >>
    /\ emitted = << >>
    /\ play = "pending"
    /\ raf = [id |-> 0, pending |-> {}]
    /\ lastProgressTime = 0
    /\ progressLog = << >>
    /\ draws = 0
    /\ reader = "none"
    /\ finalized = -1
    /\ tick = NoTick
    /\ peer = NoPeer
    /\ ServerInit
    /\ \E s \in RunSizes, d \in Durations, c \in Callbacks :
           /\ src = [w |-> s[1], h |-> s[2], maxWidth |-> s[3], maxHeight |-> s[4],
                     duration |-> d, cb |-> c, supported |-> FullSupport]
           /\ canvas = OutputSize(s[1], s[2], s[3], s[4], FALSE)

ChunkNext ==
    \/ \E size \in {0, 1} : Deliver(size, MaxDeliveries)
    \/ RecorderError
    \/ TickToDeadline
    \/ MaxTimerFire
    \/ \E cbThrows \in BOOLEAN : RecorderStop(cbThrows)
    \/ ReaderLoad
    \/ ReaderError

ChunkSpec == ChunkInit /\ [][ChunkNext]_vars

----------------------------------------------------------------------------
(* Two calls of compressVideo in the same page.  Each call creates its own *)
(* element, canvas, recorder, chunks array, timers and promise (lines 3-18: *)
(* every variable is declared inside the executor); the clock is the only   *)
(* thing the two runs read in common.  The event loop runs one callback at  *)
(* a time: the variables of the module are those of the run whose callback  *)
(* runs, peer holds those of the other run, and Switch passes from the one  *)
(* to the other.  Both runs are given the same file and a callback that     *)
(* returns, on a source of duration 0 that plays to its end: each run makes *)
(* its first call of drawFrame, which leaves a tick pending, and is stopped *)
(* by the timer of its ended event.                                         *)

\* (an array of chunks declared outside compressVideo, common to both runs)
AdoptAllButChunks(o) ==
    /\ promise' = o.promise /\ ignored' = o.ignored /\ url' = o.url
    /\ video' = o.video /\ handlers' = o.handlers /\ timers' = o.timers
    /\ canvas' = o.canvas /\ audioContext' = o.audioContext /\ rec' = o.rec
    /\ chunks' = chunks /\ emitted' = o.emitted /\ play' = o.play /\ raf' = o.raf
    /\ lastProgressTime' = o.lastProgressTime /\ progressLog' = o.progressLog
    /\ draws' = o.draws /\ reader' = o.reader /\ finalized' = o.finalized
    /\ src' = o.src /\ tick' = o.tick

\* the callbacks that run next see the variables of the run o
Adopt(o) ==
    /\ promise' = o.promise /\ ignored' = o.ignored /\ url' = o.url
    /\ video' = o.video /\ handlers' = o.handlers /\ timers' = o.timers
    /\ canvas' = o.canvas /\ audioContext' = o.audioContext /\ rec' = o.rec
    /\ chunks' = o.chunks /\ emitted' = o.emitted /\ play' = o.play /\ raf' = o.raf
    /\ lastProgressTime' = o.lastProgressTime /\ progressLog' = o.progressLog
    /\ draws' = o.draws /\ reader' = o.reader /\ finalized' = o.finalized
    /\ src' = o.src /\ tick' = o.tick

Switch ==
    /\ peer.run # 0
    /\ peer' = [run |-> 3 - peer.run, own |-> Own]
    /\ Adopt(peer.own)
    /\ now' = now
    /\ UNCHANGED server

\* a callback of the run in front: the other run's variables are not in its
\* scope, and the clock does not pass a deadline of the other run's timers
RunCallback ==
    \/ Invoke(FALSE)
    \/ LoadedMetadata("ok", "none", FALSE)
    \/ PlayResolve(FALSE, FALSE)
    \/ ReachEnd
    \/ Ended
    \/ EndedTimerFire
    \/ \E size \in {0, 1} : DataAvailable(size)
    \/ RecorderStop(FALSE)
    \/ ReaderLoad
    \/ TickToDeadline

RunStep ==
    /\ RunCallback
    /\ \A t \in TimerNames : peer.own.timers[t] # Off => now' <= peer.own.timers[t]

PairInit ==
    /\ now = Epoch
    /\ promise = Pending
    /\ ignored = FALSE
    /\ url = "none"
    /\ video = [src |-> "none", phase |-> "new", paused |-> TRUE, ended |-> FALSE,
                seeking |-> FALSE, endedQueued |-> FALSE, currentTime |-> 0]
    /\ handlers = [onloadedmetadata |-> FALSE, onerror |-> FALSE, onended |-> FALSE]
    /\ timers = [t \in TimerNames |-> Off]
    /\ canvas = << 0, 0 >>
    /\ audioContext = "null"
    /\ rec = NoRecorder
    /\ chunks = << >>
    /\ emitted = << >>
    /\ play = "none"
    /\ raf = [id |-> 0, pending |-> {}]
    /\ lastProgressTime = 0
    /\ progressLog = << >>
    /\ draws = 0
    /\ reader = "none"
    /\ finalized = -1
    /\ tick = NoTick
    /\ \E s \in RunSizes :
           src = [w |-> s[1], h |-> s[2], maxWidth |-> s[3], maxHeight |-> s[4],
                  duration |-> 0, cb |-> "ok", supported |-> FullSupport]
    /\ peer = [run |-> 2, own |-> Own]
    /\ ServerInit

PairNext ==
    \/ RunStep
    \/ Switch

PairSpec == PairInit /\ [][PairNext]_vars

----------------------------------------------------------------------------
(* The upload route, src/upload-chunk.js: POST receives one chunk of a     *)
(* file per request and, when it has counted as many requests as the        *)
(* request's totalChunks, merges the chunks and stores the file with put.   *)
(* The handler is an async function: it is suspended at await               *)
(* request.formData() (line 9), await fileChunk.arrayBuffer() (line 34) and *)
(* await put(...) (line 56), and the handlers of other requests run in      *)
(* between; each action below is the code between two suspensions.          *)
(* chunksMap maps a filename to an object; the handler keeps a reference to *)
(* the object across its suspensions (fileData, line 31), so the objects    *)
(* are numbered and chunksMap holds the number.  A chunk's content is named *)
(* by the upload (the client's file) it belongs to and its index.  The name *)
(* under which put stores the file (lines 51-53) is left out.               *)

\* requests followed
MaxRequests == 3
\* largest totalChunks of a request
MaxTotal == 2
\* the clients that upload files
Clients == {1, 2}

\* the uploads: a file of a client, cut in totalChunks chunks; every request
\* of an upload carries the upload's totalChunks
Uploads == [client : Clients, totalChunks : 1..MaxTotal]

\* an empty slot of new Array(totalChunks)
Empty == [upload |-> [client |-> 0, totalChunks |-> 0], index |-> 0]

\* the content of chunk i of the upload u
Chunk(u, i) == [upload |-> u, index |-> i]

\* { chunks: new Array(totalChunks), totalChunks, receivedChunks: 0 }, lines 24-28
NewEntry(t) == [chunks |-> [k \in 1..t |-> Empty], totalChunks |-> t, receivedChunks |-> 0]

\* fileData.chunks[chunkIndex] = chunkBuffer, line 35: an index past the end
\* lengthens the array and leaves empty slots in between
SetChunk(cs, i, c) ==
    [k \in 1..(IF i + 1 > Len(cs) THEN i + 1 ELSE Len(cs)) |->
        IF k = i + 1 THEN c ELSE IF k <= Len(cs) THEN cs[k] ELSE Empty]

\* the empty slots of the array: for (const chunk of fileData.chunks) yields
\* undefined for each, and chunk.byteLength then throws (lines 45-47)
Holes(cs) == {k \in 1..Len(cs) : cs[k] = Empty}

\* the indices 0..t-1 for which the array holds no chunk
Absent(cs, t) == {i \in 0..(t - 1) : i + 1 > Len(cs) \/ cs[i + 1] = Empty}

\* fileData.receivedChunks++, line 36: one more request, whatever its index
CountRequests(e) == e.receivedChunks + 1

\* chunksMap.delete(filename), line 62: reached only when put has returned
DeleteAfterPut(m, f, ok) == IF ok THEN [m EXCEPT ![f] = 0] ELSE m

\* a request arrives with chunk i of the upload u: the handler is called and
\* awaits the form (lines 7-9).  missing: a required field is absent or not
\* a number
PostArrives(u, f, i, missing) ==
    /\ Len(requests) < MaxRequests
    /\ i \in 0..(u.totalChunks - 1)
    /\ requests' = Append(requests,
                       [upload |-> u, filename |-> f, chunkIndex |-> i,
                        totalChunks |-> u.totalChunks,
                        missing |-> missing, pc |-> "formData", fileData |-> 0,
                        response |-> "none", absent |-> {}, merged |-> << >>])
    /\ UNCHANGED << chunksMap, entries, blobs >>
    /\ UNCHANGED client

\* lines 9-34: the form is read, the fields are checked, the entry of the
\* filename is created if there is none, and the handler awaits the chunk's
\* bytes.  throws: request.formData() rejects (lines 80-85 answer 500)
PostParsed(r, throws) ==
    /\ r \in 1..Len(requests)
    /\ requests[r].pc = "formData"
    /\ LET q == requests[r]
       IN  IF throws
           THEN /\ requests' = [requests EXCEPT ![r] = [q EXCEPT !.pc = "done", !.response = "error"]]
                /\ UNCHANGED << chunksMap, entries >>
           ELSE IF q.missing
           THEN /\ requests' = [requests EXCEPT ![r] = [q EXCEPT !.pc = "done", !.response = "bad"]]
                /\ UNCHANGED << chunksMap, entries >>
           ELSE IF chunksMap[q.filename] = 0
           THEN /\ entries' = Append(entries, NewEntry(q.totalChunks))
                /\ chunksMap' = [chunksMap EXCEPT ![q.filename] = Len(entries) + 1]
                /\ requests' = [requests EXCEPT ![r] = [q EXCEPT !.pc = "arrayBuffer",
                                                                 !.fileData = Len(entries) + 1]]
           ELSE /\ requests' = [requests EXCEPT ![r] = [q EXCEPT !.pc = "arrayBuffer",
                                                                 !.fileData = chunksMap[q.filename]]]
                /\ UNCHANGED << chunksMap, entries >>
    /\ UNCHANGED blobs
    /\ UNCHANGED client

\* lines 34-56 and 70-78: the chunk is put in its slot and counted; if the
\* count equals the request's totalChunks the chunks are merged (which
\* throws on an empty slot) and the handler awaits put; otherwise it answers
\* that the chunk was received.  absent records the indices below
\* totalChunks that were missing when the merge began.
PostBuffered(r) ==
    /\ r \in 1..Len(requests)
    /\ requests[r].pc = "arrayBuffer"
    /\ LET q  == requests[r]
           e  == entries[q.fileData]
           cs == SetChunk(e.chunks, q.chunkIndex, Chunk(q.upload, q.chunkIndex))
           n  == CountRequests(e)
       IN  /\ entries' = [entries EXCEPT ![q.fileData] =
                              [e EXCEPT !.chunks = cs, !.receivedChunks = n]]
           /\ requests' = [requests EXCEPT ![r] =
                  IF n # q.totalChunks
                  THEN [q EXCEPT !.pc = "done", !.response = "received"]
                  ELSE IF Holes(cs) # {}
                  THEN [q EXCEPT !.pc = "done", !.response = "error",
                                 !.absent = Absent(cs, q.totalChunks), !.merged = << Empty >>]
                  ELSE [q EXCEPT !.pc = "put", !.absent = Absent(cs, q.totalChunks),
                                 !.merged = cs]]
    /\ UNCHANGED << chunksMap, blobs >>
    /\ UNCHANGED client

\* lines 56-69 and 80-85: put returns (the file is stored, the entry of the
\* filename is deleted, the answer names the file) or throws (500)
PostStored(r, ok) ==
    /\ r \in 1..Len(requests)
    /\ requests[r].pc = "put"
    /\ LET q == requests[r]
       IN  /\ blobs' = IF ok THEN Append(blobs, [filename |-> q.filename, content |-> q.merged])
                              ELSE blobs
           /\ chunksMap' = DeleteAfterPut(chunksMap, q.filename, ok)
           /\ requests' = [requests EXCEPT ![r] =
                  [q EXCEPT !.pc = "done", !.response = IF ok THEN "stored" ELSE "error"]]
    /\ UNCHANGED entries
    /\ UNCHANGED client

\* no call of compressVideo is followed
UploadInit == Init /\ src.duration = 0 /\ src.cb = "none"

UploadNext ==
    \/ \E u \in Uploads, f \in Filenames, i \in 0..(MaxTotal - 1) :
           PostArrives(u, f, i, FALSE)
    \/ \E f \in Filenames : PostArrives([client |-> 1, totalChunks |-> 1], f, 0, TRUE)
    \/ \E r \in 1..MaxRequests, throws \in BOOLEAN : PostParsed(r, throws)
    \/ \E r \in 1..MaxRequests : PostBuffered(r)
    \/ \E r \in 1..MaxRequests, ok \in BOOLEAN : PostStored(r, ok)

UploadSpec == UploadInit /\ [][UploadNext]_vars

----------------------------------------------------------------------------
(* Properties *)

Settled == promise.state # "pending"

\* C1: a run has at most one outcome: once the promise has settled, no later
\* resolve or reject call changes its state or its value.
C1_SettlesAtMostOnce == [][Settled => promise' = promise]_vars

\* a settled run on which a later resolve or reject call was made
C1_Witness == Settled /\ ignored

\* C2: every run eventually settles, given that armed timers fire and queued
\* events are delivered.
C2_EventuallySettles == <>Settled

\* C2 for a callback that returns from every call (or no callback)
C2_SettlesIfCallbackReturns == src.cb # "faulty" => <>Settled

\* C3: the output size exceeds neither the bound nor the source size.
C3_OutputWithinBound ==
    video.phase = "ready" =>
        /\ canvas[1] <= Min(src.w, src.maxWidth)
        /\ canvas[2] <= Min(src.h, src.maxHeight)

\* C4: a run rejected by the load timeout never draws a frame and never
\* starts the encoder.
C4_TimedOutRunNeverRecords ==
    promise.reason = "LoadTimeout" => (draws = 0 /\ rec.state = "null")

Monotone(log) == \A i \in 1..(Len(log) - 1) : log[i] <= log[i + 1]

\* C5: the values passed to the progress callback never decrease, and a run
\* that has resolved passed 100 last.
C5_ProgressMonotone ==
    /\ Monotone(progressLog)
    /\ (promise.state = "resolved" /\ src.cb # "none") =>
           (Len(progressLog) > 0 /\ progressLog[Len(progressLog)] = 100)

\* C5 for a callback that returns from every call
C5_MonotoneIfCallbackReturns == src.cb # "faulty" => C5_ProgressMonotone

\* C6: whenever the run has settled, the object URL is revoked, the element
\* is detached from it, and the audio context, if one was created, is closed.
C6_CleanupOnEveryExit ==
    Settled => (url # "live" /\ video.src # "blob" /\ audioContext # "running")

C8_OutputImpliesResolved ==
    (finalized > 0 /\ reader = "loaded") => promise.state = "resolved"

\* C9: the recorder is recording for at most MaxDurationMs after its start.
C9_RecordingWithinCeiling ==
    rec.state = "recording" => now - rec.startedAt <= MaxDurationMs

\* the ceiling's timer stopped a recording whose source had neither ended
\* nor paused
C9_Witness ==
    /\ rec.stoppedBy = "max"
    /\ now = rec.startedAt + MaxDurationMs
    /\ Playing

\* C10: after the run has rejected, no frame is drawn, no chunk is taken
\* from the encoder and the progress callback is not called.
C10_RejectionIsTerminal ==
    [][promise.state = "rejected" =>
          /\ draws' = draws
          /\ progressLog' = progressLog
          /\ chunks' = chunks
          /\ (rec.state # "recording" => rec'.state # "recording")]_vars

\* C11: the container chosen is the first type of (webm/vp9, webm/vp8) that
\* the runtime supports, 'video/webm' when it supports neither, and the
\* choice never fails the run: the recorder is built with the chosen type.
C11_ContainerNeverFailsRun ==
    rec.mimeType # "none" =>
        /\ rec.mimeType \in {Vp9, Vp8, Webm}
        /\ (Vp9 \in src.supported => rec.mimeType = Vp9)
        /\ (Vp9 \notin src.supported /\ Vp8 \in src.supported => rec.mimeType = Vp8)
        /\ ({Vp9, Vp8} \cap src.supported = {} => rec.mimeType = Webm)
        /\ promise.reason # "NotSupported"

\* C12: both dimensions of the output are even, for every source size and
\* every bound.
C12_DimensionsEven ==
    video.phase = "ready" => (canvas[1] % 2 = 0 /\ canvas[2] % 2 = 0)

\* a 9x7 source scaled under the bound 7x7: the width 7 and the height
\* 5.44 are both brought down to even numbers
C12_Witness ==
    /\ video.phase = "ready"
    /\ src.w = 9 /\ src.h = 7 /\ src.maxWidth = 7 /\ src.maxHeight = 7
    /\ canvas = << 6, 4 >>

\* C13: the output w' x h' keeps the aspect ratio of the source w x h up to
\* the rounding of each dimension: |w'*h - h'*w| < 2*max(w, h).
C13_AspectRatioKept ==
    video.phase = "ready" =>
        LET d == canvas[1] * src.h - canvas[2] * src.w
            m == IF src.w > src.h THEN src.w ELSE src.h
        IN  (IF d < 0 THEN -d ELSE d) < 2 * m

\* the numbers of the non-empty chunks among those delivered, in the order
\* of their delivery
NonEmptyOf(e) == SelectSeq([i \in 1..Len(e) |-> i], LAMBDA i : e[i] > 0)

NonEmptyDelivered == NonEmptyOf(emitted)

\* C14: the output is built from exactly the non-empty chunks the recorder
\* delivered, in the order of their delivery: at every moment the chunks
\* array holds them, none reordered, repeated or dropped, and the array the
\* output was built from at finalization does not change afterwards.
C14_OutputIsChunksInOrder ==
    /\ chunks = NonEmptyDelivered
    /\ finalized # -1 => finalized = Len(chunks)

\* a resolved run whose recorder delivered a chunk, an empty chunk and a
\* second chunk
C14_Witness ==
    /\ emitted = << 1, 0, 1 >>
    /\ chunks = << 1, 3 >>
    /\ finalized = 2
    /\ promise.state = "resolved"

\* the run o has the chunks and the outcome that its own recorder's
\* deliveries give it
OutcomeFromOwnChunks(o) ==
    /\ o.chunks = NonEmptyOf(o.emitted)
    /\ o.promise.state = "resolved" => (o.finalized > 0 /\ o.finalized = Len(o.chunks))
    /\ o.promise.reason = "EmptyOutput" => \A i \in 1..Len(o.emitted) : o.emitted[i] = 0

\* C15: two interleaved runs share no mutable state: a callback of one run
\* leaves every variable of the other run unchanged, a run finds its
\* variables as it left them when its next callback runs, and each run
\* has the chunks and the outcome its own recorder's deliveries give it.
C15_RunsShareNoState ==
    /\ [][peer'.run = peer.run => peer' = peer]_vars
    /\ [][peer'.run # peer.run => (Own' = peer.own /\ peer'.own = Own)]_vars
    /\ [](OutcomeFromOwnChunks(Own) /\ OutcomeFromOwnChunks(peer.own))

\* two runs called together and stopped at the same time, one resolved,
\* the other rejected for its empty output
C15_Witness ==
    /\ peer.run # 0
    /\ now = Epoch + EndedGraceMs
    /\ promise.state = "resolved"
    /\ emitted = << 1 >>
    /\ peer.own.promise.reason = "EmptyOutput"
    /\ peer.own.emitted = << 0 >>

\* C16: when drawImage throws in a call of drawFrame, that same call stops
\* the recorder if it is recording (no grace timer is armed), requests no
\* further frame, and queues the stop event, whose handler is finalization:
\* the event stays queued until that handler runs, on the chunks captured.
C16_DrawErrorStopsAtOnce ==
    /\ [][(tick'.n # tick.n /\ tick'.outcome = "drawThrew") =>
             /\ rec.state = "recording" =>
                    (rec'.state = "inactive" /\ rec'.stopPending /\ rec'.stoppedBy = "draw")
             /\ rec.state # "recording" => rec' = rec
             /\ raf'.pending = {}
             /\ timers' = timers
             /\ chunks' = chunks]_vars
    /\ [][(rec.stoppedBy = "draw" /\ rec.stopPending /\ ~rec'.stopPending) =>
             /\ chunks' = chunks
             /\ src.cb # "none" => progressLog' = Append(progressLog, 100)
             /\ finalized' = Len(chunks) \/ (src.cb = "faulty" /\ finalized' = finalized)]_vars

\* a run whose recorder was stopped by a failed drawImage and whose
\* finalization built the output from the chunk captured
C16_Witness ==
    /\ tick.outcome = "drawThrew"
    /\ rec.stoppedBy = "draw"
    /\ finalized = 1
    /\ promise.state = "resolved"

\* the resources of the run are released: the audio context is not running,
\* no frame is pending, the element is detached from the file, the object
\* URL is not live
Released ==
    /\ audioContext # "running"
    /\ raf.pending = {}
    /\ video.src # "blob"
    /\ url # "live"

\* C17: finalization reports 100, then releases the resources, then checks
\* for empty output and settles: the step in which finalization reaches its
\* check has reported 100 last and released everything, and whenever the
\* promise stands settled by finalization (resolved, or rejected for empty
\* output) 100 was the last value reported and the resources are released.
C17_FinalizationOrder ==
    /\ [][(finalized = -1 /\ finalized' # -1) =>
             /\ src.cb # "none" => progressLog' = Append(progressLog, 100)
             /\ Released'
             /\ (finalized' = 0 /\ ~Settled) =>
                    promise' = [state |-> "rejected", reason |-> "EmptyOutput"]
             /\ finalized' > 0 => promise' = promise]_vars
    /\ []((promise.state = "resolved" \/ promise.reason = "EmptyOutput") =>
             /\ Released
             /\ src.cb # "none" =>
                    (Len(progressLog) > 0 /\ progressLog[Len(progressLog)] = 100))

\* finalization of a run with a progress callback, an audio context and a
\* pending frame found no chunk: 100 was reported, everything was released
\* and the run was rejected for its empty output
C17_Witness ==
    /\ promise.reason = "EmptyOutput"
    /\ progressLog # << >> /\ progressLog[Len(progressLog)] = 100
    /\ audioContext = "closed"
    /\ url = "revoked"
    /\ raf.id > 0 /\ raf.pending = {}
    /\ tick.outcome = "scheduled"

\* C18: a call of drawFrame passes to the progress callback at most one
\* value, which lies in 0..99; the value 100 is passed only by the handler
\* of the recorder's stop event, and at most once in a run.
C18_ProgressValues ==
    /\ [][tick'.n # tick.n =>
             \/ progressLog' = progressLog
             \/ \E v \in 0..ProgressCap : progressLog' = Append(progressLog, v)]_vars
    /\ [][(progressLog' # progressLog /\ progressLog'[Len(progressLog')] = 100) =>
             (tick' = tick /\ rec.stopPending /\ ~rec'.stopPending)]_vars
    /\ [](Cardinality({i \in 1..Len(progressLog) : progressLog[i] = 100}) <= 1)

\* the draw loop reported 0 and then, at the end of the source, the capped
\* value 99; finalization reported 100
C18_Witness == progressLog = << 0, ProgressCap, 100 >>

\* a call of drawFrame on a source that is paused and has not ended, at
\* time zero or while seeking
TickOnIdleSource ==
    /\ tick'.n # tick.n
    /\ video'.paused /\ ~video'.ended
    /\ video'.currentTime = 0 \/ video'.seeking

\* C19: drawFrame takes a pause for the end of the source only when the
\* source is paused, not seeking and past time zero; a call on a source
\* paused at time zero (or seeking) draws nothing, requests the next frame
\* and neither stops the recorder nor arms a timer that stops it.
C19_PausedAtZeroKeepsTicking ==
    /\ [][(tick'.n # tick.n /\ tick'.outcome = "terminated") =>
             (video'.ended \/ (video'.paused /\ video'.currentTime > 0 /\ ~video'.seeking))]_vars
    /\ [][TickOnIdleSource =>
             /\ draws' = draws
             /\ raf'.pending # {}
             /\ rec' = rec
             /\ timers' = timers]_vars

\* C19 for a callback that returns from every call (or no callback)
C19_KeepsTickingIfCallbackReturns ==
    [][(TickOnIdleSource /\ src.cb # "faulty") =>
          /\ draws' = draws
          /\ raf'.pending # {}
          /\ rec' = rec
          /\ timers' = timers]_vars

\* C20: the step that observes the natural end of the source while the
\* recorder is recording does not stop it but arms a timer: 100 ms after
\* the ended event, 300 ms after drawFrame saw the end.  The stops of these
\* two timers are issued when the delay has elapsed, not before, and a
\* recorder whose source's end was observed is recording no longer than to
\* the deadline of the timer armed by the observation.
C20_GraceBeforeStop ==
    /\ [][(timers'.ended # timers.ended /\ timers'.ended # Off) =>
             (rec' = rec /\ rec.state = "recording"
                /\ timers'.ended = now' + EndedGraceMs)]_vars
    /\ [][(timers'.drawEnd # timers.drawEnd /\ timers'.drawEnd # Off) =>
             (rec' = rec /\ rec.state = "recording"
                /\ timers'.drawEnd = now' + DrawEndGraceMs)]_vars
    /\ [][(rec'.stoppedBy # rec.stoppedBy /\ rec'.stoppedBy \in {"ended", "drawEnd"}) =>
             (now' = now /\ timers[rec'.stoppedBy] = now)]_vars
    /\ []((rec.state = "recording" /\ video.ended /\ ~video.endedQueued) =>
             (timers.ended # Off /\ now <= timers.ended))
    /\ []((rec.state = "recording" /\ tick.outcome = "terminated") =>
             (timers.drawEnd # Off /\ now <= timers.drawEnd))

\* the source ended, the ended event and drawFrame both observed it, and
\* the timer of the ended event has just stopped the recorder, 100 ms after
\* the event and before the 300 ms of drawFrame's timer have elapsed
C20_Witness ==
    /\ video.ended
    /\ rec.stoppedBy = "ended" /\ rec.stopPending
    /\ tick.outcome = "terminated"
    /\ timers.ended = Off
    /\ timers.drawEnd # Off /\ now < timers.drawEnd

\* a call of drawFrame that calls the progress callback
TickReports == tick'.n # tick.n /\ progressLog' # progressLog

\* C21: two consecutive calls of the progress callback made by drawFrame are
\* more than ProgressInterval ms apart.  lastProgressTime is the time of the
\* last such call that returned (a call that throws is the last the loop
\* makes), a call of drawFrame reports only when more than ProgressInterval
\* ms have passed since, and the first call of drawFrame passes the throttle;
\* the 100 of finalization is reported whatever the time.
C21_ProgressThrottled ==
    /\ [][TickReports =>
             /\ now' - lastProgressTime > ProgressInterval
             /\ tick.outcome # "callbackThrew"
             /\ tick'.outcome # "callbackThrew" => lastProgressTime' = now']_vars
    /\ [][lastProgressTime' # lastProgressTime => TickReports]_vars
    /\ [][tick.outcome = "callbackThrew" => tick' = tick]_vars
    /\ [][(tick.n = 0 /\ tick'.n = 1 /\ src.cb # "none"
              /\ tick'.outcome \in {"scheduled", "callbackThrew"}) => TickReports]_vars
    /\ [][(rec.stopPending /\ ~rec'.stopPending /\ src.cb # "none") =>
             progressLog' = Append(progressLog, 100)]_vars

\* the second call of drawFrame came 900 ms after the first and reported;
\* finalization reported 100 in the same millisecond
C21_Witness ==
    /\ tick.n = 2
    /\ now = Epoch + 900
    /\ lastProgressTime = now
    /\ Len(progressLog) = 3
    /\ progressLog[3] = 100


\* the handler of the recorder's stop event has run
StopHandled == rec.stoppedBy # "none" /\ ~rec.stopPending

\* C22: at most one draw tick is pending at any time: a call of drawFrame
\* leaves at most one frame requested, and none when it saw the end of the
\* source or caught an error of drawImage; the handler of the stop event
\* leaves no frame pending, and drawFrame is not called after it has run.
C22_OneTickPending ==
    /\ [](Cardinality(raf.pending) <= 1)
    /\ [][(tick'.n # tick.n /\ tick'.outcome \in {"terminated", "drawThrew"}) =>
             raf'.pending = {}]_vars
    /\ [][(rec.stopPending /\ ~rec'.stopPending) => raf'.pending = {}]_vars
    /\ [][StopHandled => tick' = tick]_vars

\* C22 for a callback that returns from every call (or no callback)
C22_OneTickIfCallbackReturns ==
    /\ [][(rec.stopPending /\ ~rec'.stopPending /\ src.cb # "faulty") =>
             raf'.pending = {}]_vars
    /\ [][(StopHandled /\ src.cb # "faulty") => tick' = tick]_vars

\* C23: a failure of the audio setup does not reject the run: no run is
\* rejected with the error of the audio setup, and the step of
\* video.onloadedmetadata that builds the recorder without an audio track
\* (the audio context could not be created, or no track was obtained from
\* it) starts it like any other: the promise is left as it was, the
\* ceiling's timer is armed and play() is called.
C23_AudioFailureNotFatal ==
    /\ [](promise.reason # "AudioError")
    /\ [](audioContext = "null" => ~rec.audio)
    /\ [][(video.phase = "loading" /\ rec'.state = "recording" /\ ~rec'.audio) =>
             /\ promise' = promise
             /\ timers'.max = now' + MaxDurationMs
             /\ play' = "pending"
             /\ handlers'.onended]_vars

\* the audio context was created, no audio track was obtained, and the
\* recorder records the video track alone
C23_Witness ==
    /\ rec.state = "recording"
    /\ ~rec.audio
    /\ audioContext = "running"
    /\ promise = Pending

\* C24: a source that fits the bound is not scaled: each output dimension
\* is the source's, rounded down to an even number, so that an even-sized
\* source that fits is output unchanged.
C24_FittingSourceNotScaled ==
    (video.phase = "ready" /\ src.w <= src.maxWidth /\ src.h <= src.maxHeight) =>
        /\ canvas = << 2 * (src.w \div 2), 2 * (src.h \div 2) >>
        /\ (src.w % 2 = 0 /\ src.h % 2 = 0) => canvas = << src.w, src.h >>

\* a 6x4 source under the bound 7x7 is output as 6x4
C24_Witness ==
    /\ video.phase = "ready"
    /\ src.w = 6 /\ src.h = 4 /\ src.maxWidth = 7 /\ src.maxHeight = 7
    /\ canvas = << 6, 4 >>

\* C25: the recorder is stopped only while it is recording, whichever of
\* the four places calls stop(): a recorder that is not recording is left as
\* it is by the timers and by drawFrame.  So a run's recorder is stopped at
\* most once, and once the handler of its stop event has run, no stop event
\* is queued again.
C25_StopOnlyWhileRecording ==
    /\ [][rec'.stoppedBy # rec.stoppedBy =>
             (rec.state = "recording" /\ rec.stoppedBy = "none"
                /\ rec'.state = "inactive" /\ rec'.stopPending)]_vars
    /\ [][rec.state = "inactive" =>
             rec' \in {rec, [rec EXCEPT !.stopPending = FALSE]}]_vars
    /\ [][StopHandled => (~rec'.stopPending /\ rec'.state = "inactive")]_vars

\* the timer of the ended event stopped the recorder, finalization ran, and
\* the ceiling's timer found the recorder inactive when it fired
C25_Witness ==
    /\ rec.stoppedBy = "ended"
    /\ finalized # -1
    /\ timers.max = Off
    /\ now = rec.startedAt + MaxDurationMs

\* the progress callback has thrown: in a call of drawFrame, or in the
\* handler of the stop event, which then ended before its check
CallbackThrew ==
    \/ tick.outcome = "callbackThrew"
    \/ StopHandled /\ finalized = -1

\* C26: a run whose progress callback has thrown, in the draw loop or in
\* finalization, still settles eventually.
C26_SettlesAfterCallbackThrow == CallbackThrew ~> Settled

\* C26 for the draw loop alone: after the callback has thrown in a call of
\* drawFrame, the recorder is stopped and its stop event is queued or handled
C26_DrawLoopThrowStopsRecorder ==
    tick.outcome = "callbackThrew" => (rec.state = "inactive" /\ rec.stoppedBy # "none")

\* C27: for a source and a bound with both dimensions at least 2, both
\* output dimensions are at least 2.
C27_OutputAtLeastTwo ==
    (video.phase = "ready" /\ src.w >= 2 /\ src.h >= 2
       /\ src.maxWidth >= 2 /\ src.maxHeight >= 2) =>
        (canvas[1] >= 2 /\ canvas[2] >= 2)

\* C28: the upload route merges the chunks of a file only when every index
\* 0..totalChunks-1 has been received for its filename: no request begins
\* the merge while an index below its totalChunks is missing.
C28_AssemblyOnlyWhenComplete ==
    \A r \in 1..Len(requests) :
        requests[r].merged # << >> => requests[r].absent = {}

\* C29: when the request that handed the merged file to put has finished,
\* whether put returned or threw, its filename has no entry in chunksMap.
C29_EntryGoneAfterLastChunk ==
    [][\A r \in 1..Len(requests) :
          (requests[r].pc = "put" /\ requests'[r].pc = "done") =>
              chunksMap'[requests[r].filename] = 0]_vars

\* the uploads whose chunks the array holds
UploadsIn(cs) == {cs[k].upload : k \in 1..Len(cs)} \ {Empty.upload}

\* C30: two uploads that use the same filename are kept apart: no entry of
\* chunksMap and no stored file holds chunks of more than one upload.
C30_UploadsKeptApart ==
    /\ \A e \in 1..Len(entries) : Cardinality(UploadsIn(entries[e].chunks)) <= 1
    /\ \A b \in 1..Len(blobs) : Cardinality(UploadsIn(blobs[b].content)) <= 1

============================================================================
